---- MODULE Spec2Model ----
(***************************************************************************)
(* Photo rating batch queue.                                               *)
(*                                                                         *)
(* The model covers three builds of the application found in the sources:  *)
(*   "env"   - src/App.tsx with the rating client ratePhotoWithGemini      *)
(*             (src/unnamed/part_001, lines 377-493); the credential comes *)
(*             from the build environment, MAX_CONCURRENCY = 5;            *)
(*   "login" - the App of src/unnamed/part_001, lines 734-1149, with the   *)
(*             rating client ratePhoto (same file, lines 652-705); the     *)
(*             credential is typed in on a login screen,                   *)
(*             MAX_CONCURRENCY = 4;                                        *)
(*   "direct" - the App of src/unnamed/part_002, lines 804-1170: the login *)
(*             build, except that its then-callback stores what ratePhoto  *)
(*             resolved with without looking at the error flag.            *)
(* The build is chosen in the initial state and never changes.             *)
(*                                                                         *)
(* React state is modelled as rendered: a handler sees the state left by   *)
(* the previous handler, and the processing effect (which depends on       *)
(* photos and isProcessing) is re-run as part of every action that         *)
(* changes one of them.  Strings that are Chinese in the source are        *)
(* written in English here (TLA+ strings are ASCII).                       *)
(***************************************************************************)
EXTENDS Naturals, Integers, Sequences, FiniteSets, TLC

VARIABLES
  variant,        \* which build runs: "env", "login" or "direct"
  hasApiKey,      \* App: hasApiKey (env: checkApiKey(); login: useState)
  photos,         \* App: photos, a sequence of PhotoData records
  isProcessing,   \* App: isProcessing ("running" mode)
  processingRef,  \* App: processingRef.current, the in-flight guard set
  inflight,       \* per id: rating requests issued whose callbacks have not run
  settling,       \* the rating call that has just settled, its callbacks due
  nextId,         \* number of ids handed out so far (uuidv4 never repeats)
  revoked,        \* per id: number of URL.revokeObjectURL calls on its preview
  confirmClear,   \* StatsPanel: confirmClear (clear button armed)
  removes,        \* number of remove clicks so far (bounded)
  groupReport,    \* App: groupReport
  generatingReport, \* App: generatingReport
  reporting,      \* the generateGroupReport call handleGenerateReport awaits
  reportAlerts,   \* number of alert() calls made by handleGenerateReport
  reports,        \* number of clicks on the report button so far (bounded)
  csv             \* the rows of the file the last export offered for download

\* the state of the report feature besides the stored report
reportVars == <<generatingReport, reporting, reportAlerts, reports>>

vars == <<variant, hasApiKey, photos, isProcessing, processingRef, inflight,
          settling, nextId, revoked, confirmClear, removes, groupReport,
          reportVars, csv>>

\* ------------------------------------------------------------------ bounds
MaxExtra == 1       \* photos of one behaviour beyond the concurrency limit
MaxRemoves == 1     \* remove clicks in one behaviour
MaxUpload == 3      \* files picked in one upload
MaxRated == 2       \* photos of one behaviour when every script is tried
MaxReports == 2     \* clicks on the report button in one behaviour
MaxBatch == 10      \* photos of one behaviour of a large batch

\* ------------------------------------------------------- program constants
MAX_CONCURRENCY_ENV == 5
MAX_CONCURRENCY_LOGIN == 4
maxAttempts == 6
baseDelay == 2000
ratePhotoAttempts == 3
ratePhotoDelay == 2000
reportMaxAttempts == 4
reportDelay == 3000

MAX_CONCURRENCY == IF variant = "env" THEN MAX_CONCURRENCY_ENV
                                      ELSE MAX_CONCURRENCY_LOGIN

\* photos handed an id in one behaviour
MaxPhotos == MAX_CONCURRENCY + MaxExtra

\* ids handed out in one behaviour of any of the specifications
MaxIds == IF MaxBatch > MAX_CONCURRENCY_ENV + MaxExtra
          THEN MaxBatch ELSE MAX_CONCURRENCY_ENV + MaxExtra

Ids == 1..MaxIds

\* the builds that start on a login screen
LoginBuilds == {"login", "direct"}

\* groupReport: null
Null == [kind |-> "null"]

\* enum Rating
Rating == [S |-> "S", A |-> "A", B |-> "B", Unrated |-> "Unrated",
           Rejected |-> "Rejected"]

\* enum ProcessStatus
ProcessStatus == [Idle |-> "idle", Pending |-> "pending",
                  Processing |-> "processing", Completed |-> "completed",
                  Error |-> "error"]

\* ------------------------------------------------------------ the backend
\* One answer of ai.models.generateContent:
\*   kind "json"      - response.text parses to an object with the fields
\*                      rating and reason ("" stands for a missing field);
\*   kind "empty"     - response.text is absent;
\*   kind "malformed" - response.text does not parse;
\*   kind "error"     - the call rejects, err is the error's text.
QuotaErr == "ApiError 429 RESOURCE_EXHAUSTED quota"
UnavailableErr == "ApiError 503 UNAVAILABLE"
NetworkErr == "TypeError Failed to fetch"
ForbiddenErr == "ApiError 403 PERMISSION_DENIED"
NoResponseErr == "Error No response from AI"
SyntaxErr == "SyntaxError Unexpected token"

Json(r, c) == [kind |-> "json", rating |-> r, reason |-> c, err |-> ""]
Empty == [kind |-> "empty", rating |-> "", reason |-> "", err |-> ""]
Malformed == [kind |-> "malformed", rating |-> "", reason |-> "", err |-> ""]
Fails(e) == [kind |-> "error", rating |-> "", reason |-> "", err |-> e]

\* errStr.includes(tok) for the error texts above
Includes(errStr, tok) ==
  CASE errStr = QuotaErr -> tok \in {"429", "RESOURCE_EXHAUSTED", "quota"}
    [] errStr = UnavailableErr -> tok = "503"
    [] errStr = NetworkErr -> tok = "Failed to fetch"
    [] errStr = ForbiddenErr -> tok = "403"
    [] OTHER -> FALSE

\* the i-th answer of a script; the backend repeats its last answer
Resp(responses, i) ==
  IF i <= Len(responses) THEN responses[i] ELSE responses[Len(responses)]

\* Math.pow(2, n)
RECURSIVE Pow2(_)
Pow2(n) == IF n = 0 THEN 1 ELSE 2 * Pow2(n - 1)

\* ------------------------------------------------------ the rating clients
\* What a rating call settles with.  calls counts the generateContent
\* requests made, waits lists the back-off delays slept (ms).
Resolve(rating, reason, error, calls, waits) ==
  [kind |-> "resolve", rating |-> rating, reason |-> reason, error |-> error,
   calls |-> calls, waits |-> waits]
Reject(message) ==
  [kind |-> "reject", rating |-> "", reason |-> message, error |-> FALSE,
   calls |-> 0, waits |-> <<>>]

\* ratePhotoWithGemini: the text the try block throws for an answer that
\* does not yield a result
geminiThrown(r) ==
  IF r.kind = "error" THEN r.err
  ELSE IF r.kind = "empty" THEN NoResponseErr
  ELSE SyntaxErr

\* the catch block rethrows instead of returning the fallback
geminiFallbackThrows(calls, waits) == Reject("AI unavailable (Limit reached).")

\* ratePhotoWithGemini: the catch block gives up
geminiFallback(calls, waits) ==
  Resolve(Rating.B, "AI unavailable (Limit reached).", FALSE, calls, waits)

\* a rate-limit error is retried whatever the number of attempts
geminiRetriesAlways(errStr, attempts) ==
  LET isQuotaError == \/ Includes(errStr, "429")
                      \/ Includes(errStr, "RESOURCE_EXHAUSTED")
                      \/ Includes(errStr, "quota")
  IN isQuotaError

\* the last retry cut off by one
geminiRetriesShort(errStr, attempts) ==
  LET isQuotaError == \/ Includes(errStr, "429")
                      \/ Includes(errStr, "RESOURCE_EXHAUSTED")
                      \/ Includes(errStr, "quota")
  IN isQuotaError /\ attempts < maxAttempts - 2

\* ratePhotoWithGemini: the catch block decides to try again
geminiRetries(errStr, attempts) ==
  LET isQuotaError == \/ Includes(errStr, "429")
                      \/ Includes(errStr, "RESOURCE_EXHAUSTED")
                      \/ Includes(errStr, "quota")
  IN isQuotaError /\ attempts < maxAttempts - 1

\* ratePhotoWithGemini: the retry loop, entered with attempts = 0
RECURSIVE geminiLoop(_, _, _)
geminiLoop(responses, attempts, waits) ==
  IF attempts < maxAttempts
  THEN LET r == Resp(responses, attempts + 1) IN
       IF r.kind = "json"
       THEN LET ratingEnum == IF r.rating = "A" THEN Rating.A
                              ELSE IF r.rating = "S" THEN Rating.S
                              ELSE Rating.B
            IN Resolve(ratingEnum,
                       IF r.reason # "" THEN r.reason ELSE "Processed.",
                       FALSE, attempts + 1, waits)
       ELSE LET errStr == geminiThrown(r)
            IN IF geminiRetries(errStr, attempts)
               THEN geminiLoop(responses, attempts + 1,
                               Append(waits, baseDelay * Pow2(attempts)))
               ELSE geminiFallback(attempts + 1, waits)
  ELSE Resolve(Rating.B, "Analysis Timeout", FALSE, attempts, waits)

\* resizeAndEncodeImage awaited outside any try block
ratePhotoWithGeminiUnguarded(apiKey, imageOk, responses) ==
  IF ~apiKey THEN Reject("API Key not found")
  ELSE IF ~imageOk THEN Reject("[object Event]")
  ELSE geminiLoop(responses, 0, <<>>)

\* ratePhotoWithGemini(file); apiKey is what getApiKey() finds, imageOk
\* whether resizeAndEncodeImage resolves
ratePhotoWithGemini(apiKey, imageOk, responses) ==
  IF ~apiKey THEN Reject("API Key not found")
  ELSE IF ~imageOk THEN Resolve(Rating.B, "Image processing failed", FALSE,
                                0, <<>>)
  ELSE geminiLoop(responses, 0, <<>>)

\* ratePhoto: the outer catch
ratePhotoCatch(errText, calls, waits) ==
  LET reason == IF errText = "Network Error"
                   \/ Includes(errText, "Failed to fetch")
                THEN "Network unreachable (VPN needed)"
                ELSE "AI processing failed"
  IN Resolve(Rating.Unrated, reason, TRUE, calls, waits)

\* ratePhoto: the loop ran out of attempts
ratePhotoExhausted(calls, waits) ==
  Resolve(Rating.B, "Request timed out", TRUE, calls, waits)

\* ratePhoto: the inner catch decides to try again
ratePhotoRetries(e) == Includes(e, "429") \/ Includes(e, "503")

\* ratePhoto: the retry loop, entered with attempts = 0
RECURSIVE ratePhotoLoop(_, _, _)
ratePhotoLoop(responses, attempts, waits) ==
  IF attempts < ratePhotoAttempts
  THEN LET r == Resp(responses, attempts + 1) IN
       IF r.kind \in {"json", "empty"}
       THEN \* JSON.parse(response.text || "{}")
            Resolve(IF r.rating # "" THEN r.rating ELSE Rating.B,
                    IF r.reason # "" THEN r.reason ELSE "Processed",
                    FALSE, attempts + 1, waits)
       ELSE LET e == IF r.kind = "error" THEN r.err ELSE SyntaxErr IN
            IF Includes(e, "Failed to fetch")
            THEN ratePhotoCatch("Network Error", attempts + 1, waits)
            ELSE IF ratePhotoRetries(e)
            THEN ratePhotoLoop(responses, attempts + 1,
                               Append(waits, ratePhotoDelay * Pow2(attempts)))
            ELSE ratePhotoCatch(e, attempts + 1, waits)
  ELSE ratePhotoExhausted(attempts, waits)

\* ratePhoto(file, apiKey); with an empty apiKey the GoogleGenAI constructor
\* throws inside the outer try
ratePhoto(apiKey, imageOk, responses) ==
  IF ~imageOk THEN ratePhotoCatch("[object Event]", 0, <<>>)
  ELSE IF ~apiKey THEN ratePhotoCatch("Error An API Key must be set", 0, <<>>)
  ELSE ratePhotoLoop(responses, 0, <<>>)

\* the client the build calls from processQueue
RateClient(v, apiKey, imageOk, responses) ==
  IF v = "env" THEN ratePhotoWithGemini(apiKey, imageOk, responses)
               ELSE ratePhoto(apiKey, imageOk, responses)

\* ------------------------------------------------------ the report clients
\* an answer of generateContent whose text parses to a report
ReportAnswer(g) ==
  [kind |-> "json", overallGrade |-> g, summary |-> "summary", err |-> ""]

\* What a report call settles with.
ResolveReport(r, calls, waits) ==
  [kind |-> "resolve",
   report |-> [kind |-> "report", overallGrade |-> r.overallGrade,
               summary |-> r.summary],
   calls |-> calls, waits |-> waits]
RejectReport(message, calls, waits) ==
  [kind |-> "reject", report |-> Null, message |-> message, calls |-> calls,
   waits |-> waits]

\* generateGroupReport of the env build: the text its try block throws
reportThrown(r) ==
  IF r.kind = "error" THEN r.err
  ELSE IF r.kind = "empty" THEN "Error No report generated"
  ELSE SyntaxErr

\* generateGroupReport of the env build: the catch block decides to try again
reportRetries(errStr, attempts) ==
  LET isQuotaError == \/ Includes(errStr, "429")
                      \/ Includes(errStr, "RESOURCE_EXHAUSTED")
  IN isQuotaError /\ attempts < reportMaxAttempts - 1

\* generateGroupReport of the env build: the retry loop
RECURSIVE reportLoop(_, _, _)
reportLoop(responses, attempts, waits) ==
  IF attempts < reportMaxAttempts
  THEN LET r == Resp(responses, attempts + 1) IN
       IF r.kind = "json"
       THEN ResolveReport(r, attempts + 1, waits)
       ELSE LET errStr == reportThrown(r)
            IN IF reportRetries(errStr, attempts)
               THEN reportLoop(responses, attempts + 1,
                               Append(waits, reportDelay * Pow2(attempts)))
               ELSE RejectReport(errStr, attempts + 1, waits)
  ELSE RejectReport("Failed to generate report after retries", attempts,
                    waits)

\* generateGroupReport(stats, sReasons, bReasons) of the env build
generateGroupReportEnv(apiKey, responses) ==
  IF ~apiKey THEN RejectReport("API Key not found", 0, <<>>)
  ELSE reportLoop(responses, 0, <<>>)

\* generateGroupReport(stats, sReasons, bReasons, apiKey) of the login
\* build: one request, JSON.parse(res.text!)
generateGroupReportLogin(apiKey, responses) ==
  IF ~apiKey THEN RejectReport("Error An API Key must be set", 0, <<>>)
  ELSE LET r == Resp(responses, 1) IN
       IF r.kind = "json" THEN ResolveReport(r, 1, <<>>)
       ELSE RejectReport(IF r.kind = "error" THEN r.err ELSE SyntaxErr,
                         1, <<>>)

\* the report client the build calls from handleGenerateReport
generateGroupReport(v, apiKey, responses) ==
  IF v = "env" THEN generateGroupReportEnv(apiKey, responses)
               ELSE generateGroupReportLogin(apiKey, responses)

\* ------------------------------------------------------------- the inputs
None == [id |-> 0]

RECURSIVE Repeat(_, _)
Repeat(x, n) == IF n = 0 THEN <<>> ELSE <<x>> \o Repeat(x, n - 1)

\* final answers of the backend
Finals ==
  {Json(r, c) : r \in {"S", "A", "B", "Rejected", ""}, c \in {"crit", ""}}
  \cup {Empty, Malformed, Fails(QuotaErr), Fails(UnavailableErr),
        Fails(NetworkErr), Fails(ForbiddenErr)}

\* what the backend does to one rating call: k rate-limit errors, then a
\* final answer (repeated if the client asks again)
MaxQuota == 6
ClientScripts ==
  {Repeat(Fails(QuotaErr), k) \o <<f>> : k \in 0..MaxQuota, f \in Finals}

\* the attempt ceiling of the build's rating client
Ceiling(v) == IF v = "env" THEN maxAttempts ELSE ratePhotoAttempts

\* The backend behaviours met while a full batch runs: a good answer after
\* two rate-limit errors, or an unparsable answer.
QueueScripts ==
  { [imageOk |-> TRUE,
     responses |-> <<Fails(QuotaErr), Fails(QuotaErr), Json("S", "crit")>>],
    [imageOk |-> TRUE, responses |-> <<Malformed>>] }

\* what the backend does to one report call
MaxReportQuota == 4
ReportScripts ==
  {Repeat(Fails(QuotaErr), k) \o <<f>> :
     k \in 0..MaxReportQuota,
     f \in {ReportAnswer("S"), ReportAnswer("B"), Empty, Malformed,
            Fails(QuotaErr), Fails(UnavailableErr), Fails(NetworkErr)}}

\* The backend behaviours within the response schema of the rating request
\* (rating one of S, A, B), and two failures.
SchemaScripts ==
  { [imageOk |-> TRUE, responses |-> <<f>>] :
      f \in {Json("S", "crit"), Json("A", "crit"), Json("B", "crit"),
             Malformed, Fails(NetworkErr)} }

\* every behaviour a rating call is tried against
AllScripts ==
  [imageOk : BOOLEAN, responses : ClientScripts]

\* ------------------------------------------------------- derived App state
PhotoIds == {photos[i].id : i \in 1..Len(photos)}
WithStatus(ps, st) == SelectSeq(ps, LAMBDA p : p.status = st)
CountStatus(st) == Len(WithStatus(photos, st))
pendingCount == CountStatus(ProcessStatus.Pending)
Outstanding == LET RECURSIVE Sum(_)
                   Sum(i) == IF i = 0 THEN 0 ELSE Len(inflight[i]) + Sum(i - 1)
               IN Sum(MaxIds)

\* App: stats
stats ==
  [total |-> Len(photos),
   processed |->
     Len(SelectSeq(photos, LAMBDA p : p.status = ProcessStatus.Completed
                                      \/ p.status = ProcessStatus.Error)),
   s_count |-> Len(SelectSeq(photos, LAMBDA p : p.rating = Rating.S)),
   a_count |-> Len(SelectSeq(photos, LAMBDA p : p.rating = Rating.A)),
   b_count |-> Len(SelectSeq(photos, LAMBDA p : p.rating = Rating.B))]

\* prev.map(f)
MapSeq(ps, F(_)) == [i \in 1..Len(ps) |-> F(ps[i])]

\* array.slice(1, n): the first element skipped
SliceFromOne(ps, n) == SubSeq(ps, 2, IF n < Len(ps) THEN n ELSE Len(ps))

\* array.slice(-n): taken from the end of the array
SliceLast(ps, n) ==
  SubSeq(ps, IF n < Len(ps) THEN Len(ps) - n + 1 ELSE 1, Len(ps))

\* array.slice(0, n)
Slice(ps, n) == SubSeq(ps, 1, IF n < Len(ps) THEN n ELSE Len(ps))

\* the effect without its safety check
AlertingNever == FALSE

\* The processing effect shows its alert and has not yet turned running off
\* (env build, running switched on without a key).
Alerting == variant = "env" /\ isProcessing /\ ~hasApiKey

\* the awaited report call has settled, the rest of handleGenerateReport is
\* due
ReportDue == reporting # None /\ reporting.settled

\* promise callbacks or an effect are due: no timer or click runs before them
Busy == settling # None \/ Alerting \/ ReportDue

\* the main screen is rendered (the login build shows the login screen
\* instead while there is no key)
MainScreen == variant \in LoginBuilds => hasApiKey

\* The processing effect re-run after a change of photos or isProcessing:
\* when not running it clears the guard set.
EffectRef(running, ref) == IF running THEN ref ELSE {}

Init ==
  /\ variant \in {"env", "login"}
  /\ hasApiKey \in BOOLEAN
  /\ photos = <<>>
  /\ isProcessing = FALSE
  /\ processingRef = {}
  /\ inflight = [i \in Ids |-> <<>>]
  /\ settling = None
  /\ nextId = 0
  /\ revoked = [i \in Ids |-> 0]
  /\ confirmClear = FALSE
  /\ removes = 0
  /\ groupReport = Null
  /\ generatingReport = FALSE
  /\ reporting = None
  /\ reportAlerts = 0
  /\ reports = 0
  /\ csv = [rows |-> <<>>, csvContent |-> ""]

\* ------------------------------------------------------------ user actions
\* a new photo starts with the lowest grade
NewPhotoRated(i) == [id |-> i, rating |-> Rating.B, reason |-> "",
                     status |-> ProcessStatus.Pending]

\* handleFileUpload: the record made for one picked file
NewPhoto(i) == [id |-> i, rating |-> Rating.Unrated, reason |-> "",
                status |-> ProcessStatus.Pending]

\* the new photos replace the list
handleFileUploadReplace(k) ==
  /\ ~Busy /\ MainScreen
  /\ nextId + k <= MaxIds
  /\ photos' = [j \in 1..k |-> NewPhoto(nextId + j)]
  /\ nextId' = nextId + k
  /\ groupReport' = Null
  /\ processingRef' = EffectRef(isProcessing, processingRef)
  /\ UNCHANGED <<reportVars, csv, variant, hasApiKey, isProcessing, inflight,
                 settling, revoked, confirmClear, removes>>

handleFileUpload(k) ==
  /\ ~Busy /\ MainScreen
  /\ nextId + k <= MaxIds
  /\ photos' = photos \o [j \in 1..k |-> NewPhoto(nextId + j)]
  /\ nextId' = nextId + k
  /\ groupReport' = Null
  /\ processingRef' = EffectRef(isProcessing, processingRef)
  /\ UNCHANGED <<reportVars, csv, variant, hasApiKey, isProcessing, inflight,
                 settling, revoked, confirmClear, removes>>

handleRemovePhoto(id) ==
  /\ ~Busy /\ MainScreen
  /\ removes < MaxRemoves
  /\ id \in PhotoIds
  /\ revoked' = [revoked EXCEPT ![id] = @ + 1]
  /\ photos' = SelectSeq(photos, LAMBDA p : p.id # id)
  /\ removes' = removes + 1
  /\ processingRef' = EffectRef(isProcessing, processingRef)
  /\ UNCHANGED <<groupReport, reportVars, csv, variant, hasApiKey,
                 isProcessing, inflight, settling, nextId, confirmClear>>

\* StatsPanel start button, onStart
onStart ==
  /\ ~Busy /\ MainScreen
  /\ ~isProcessing /\ pendingCount > 0
  /\ isProcessing' = TRUE
  /\ UNCHANGED <<groupReport, reportVars, csv, variant, hasApiKey, photos,
                 processingRef, inflight, settling, nextId, revoked,
                 confirmClear, removes>>

\* stop puts the photos that are being rated back in the queue
onStopRequeue ==
  /\ ~Busy /\ MainScreen
  /\ isProcessing
  /\ isProcessing' = FALSE
  /\ processingRef' = EffectRef(FALSE, processingRef)
  /\ photos' = [i \in 1..Len(photos) |->
                  IF photos[i].status = ProcessStatus.Processing
                  THEN [photos[i] EXCEPT !.status = ProcessStatus.Pending]
                  ELSE photos[i]]
  /\ UNCHANGED <<groupReport, reportVars, csv, variant, hasApiKey, inflight,
                 settling, nextId, revoked, confirmClear, removes>>

\* StatsPanel stop button, onStop
onStop ==
  /\ ~Busy /\ MainScreen
  /\ isProcessing
  /\ isProcessing' = FALSE
  /\ processingRef' = EffectRef(FALSE, processingRef)
  /\ UNCHANGED <<groupReport, reportVars, csv, variant, hasApiKey, photos,
                 inflight, settling, nextId, revoked, confirmClear, removes>>

\* the processing effect of the env build when running without a key
EffectNoKey ==
  /\ Alerting
  /\ isProcessing' = FALSE
  /\ processingRef' = EffectRef(FALSE, processingRef)
  /\ UNCHANGED <<groupReport, reportVars, csv, variant, hasApiKey, photos,
                 inflight, settling, nextId, revoked, confirmClear, removes>>

\* StatsPanel: first click on the clear button
ArmClear ==
  /\ ~Busy /\ MainScreen
  /\ ~confirmClear
  /\ ~(Len(photos) = 0 \/ isProcessing)
  /\ confirmClear' = TRUE
  /\ UNCHANGED <<groupReport, reportVars, csv, variant, hasApiKey, photos,
                 isProcessing, processingRef, inflight, settling, nextId,
                 revoked, removes>>

\* StatsPanel: the armed button resets after 3 seconds
DisarmClear ==
  /\ ~Busy /\ MainScreen
  /\ confirmClear
  /\ confirmClear' = FALSE
  /\ UNCHANGED <<groupReport, reportVars, csv, variant, hasApiKey, photos,
                 isProcessing, processingRef, inflight, settling, nextId,
                 revoked, removes>>

\* App.tsx handleClearAll: the photos it empties and the handles it revokes
handleClearAll ==
  IF Len(photos) = 0
  THEN UNCHANGED <<photos, revoked, isProcessing, processingRef,
                   groupReport>>
  ELSE /\ revoked' = [i \in Ids |-> IF i \in PhotoIds THEN revoked[i] + 1
                                                      ELSE revoked[i]]
       /\ photos' = <<>>
       /\ groupReport' = Null
       /\ isProcessing' = FALSE
       /\ processingRef' = EffectRef(FALSE, processingRef)

\* login build: the inline onClear handler
onClearInline ==
  /\ photos' = <<>>
  /\ groupReport' = Null
  /\ isProcessing' = FALSE
  /\ processingRef' = EffectRef(FALSE, processingRef)
  /\ UNCHANGED revoked

\* StatsPanel: click on the armed clear button
ConfirmClear ==
  /\ ~Busy /\ MainScreen
  /\ confirmClear
  /\ IF variant = "env" THEN handleClearAll ELSE onClearInline
  /\ confirmClear' = FALSE
  /\ UNCHANGED <<reportVars, csv, variant, hasApiKey, inflight, settling,
                 nextId, removes>>

\* login build: handleLogin with a key that is accepted
handleLogin ==
  /\ ~Busy
  /\ variant \in LoginBuilds /\ ~hasApiKey
  /\ hasApiKey' = TRUE
  /\ UNCHANGED <<groupReport, reportVars, csv, variant, photos, isProcessing,
                 processingRef, inflight, settling, nextId, revoked,
                 confirmClear, removes>>

\* login build: handleLogout, confirmed; the main screen and with it the
\* StatsPanel state go away
handleLogout ==
  /\ ~Busy
  /\ variant \in LoginBuilds /\ hasApiKey
  /\ hasApiKey' = FALSE
  /\ photos' = <<>>
  /\ confirmClear' = FALSE
  /\ processingRef' = EffectRef(isProcessing, processingRef)
  /\ UNCHANGED <<groupReport, reportVars, csv, variant, isProcessing,
                 inflight, settling, nextId, revoked, removes>>

\* ------------------------------------------------------------ the scheduler
\* nextBatch.forEach: the guard set after the launches
LaunchRef(ref, batchIds) == ref \cup batchIds

\* the first photo of the batch is skipped as if it were in the guard set
LaunchCallsButFirst(calls, ref, batchIds, key) ==
  [i \in Ids |-> IF i \in batchIds /\ i \notin ref
                    /\ \E b \in batchIds : b < i
                 THEN Append(calls[i], key) ELSE calls[i]]

\* nextBatch.forEach: the calls after the launches; a photo whose id is in
\* the guard set is skipped, the others get one rating call each, made with
\* the key the client finds at that moment
LaunchCalls(calls, ref, batchIds, key) ==
  [i \in Ids |-> IF i \in batchIds /\ i \notin ref
                 THEN Append(calls[i], key) ELSE calls[i]]

\* the last photo of the batch is launched without being marked
MarkProcessingButLast(ps, batchIds) ==
  MapSeq(ps, LAMBDA p : IF p.id \in batchIds
                           /\ \E b \in batchIds : b > p.id
                        THEN [p EXCEPT !.status = ProcessStatus.Processing]
                        ELSE p)

\* the batch launched without being marked
MarkProcessingNone(ps, batchIds) == ps

\* the map marks every photo of the list
MarkProcessingAll(ps, batchIds) ==
  MapSeq(ps, LAMBDA p : [p EXCEPT !.status = ProcessStatus.Processing])

\* setPhotos(prev => prev.map(...)): mark the batch as processing
MarkProcessing(ps, batchIds) ==
  MapSeq(ps, LAMBDA p : IF p.id \in batchIds
                        THEN [p EXCEPT !.status = ProcessStatus.Processing]
                        ELSE p)

\* the in-flight count not subtracted
slotsFreeAll(limit, currentProcessing) == limit

\* the operands swapped
slotsFreeSwapped(limit, currentProcessing) == Len(currentProcessing) - limit

\* const slotsFree = MAX_CONCURRENCY - currentProcessing.length
slotsFree(limit, currentProcessing) == limit - Len(currentProcessing)

\* the batch is taken for finished as soon as nothing waits
nothingLeftPending(currentProcessing, currentPending) ==
  Len(currentPending) = 0

\* currentProcessing.length === 0 && currentPending.length === 0
nothingLeft(currentProcessing, currentPending) ==
  Len(currentProcessing) = 0 /\ Len(currentPending) = 0

\* one run of processQueue, fired by the interval
processQueue ==
  /\ ~Busy
  /\ isProcessing
  /\ LET currentProcessing == WithStatus(photos, ProcessStatus.Processing)
         currentPending == WithStatus(photos, ProcessStatus.Pending)
         free == slotsFree(MAX_CONCURRENCY, currentProcessing)
     IN IF nothingLeft(currentProcessing, currentPending)
        THEN /\ isProcessing' = FALSE
             /\ processingRef' = EffectRef(FALSE, processingRef)
             /\ UNCHANGED <<photos, inflight>>
        ELSE IF free > 0 /\ Len(currentPending) > 0
        THEN LET nextBatch == Slice(currentPending, free)
                 batchIds == {nextBatch[i].id : i \in 1..Len(nextBatch)}
             IN /\ photos' = MarkProcessing(photos, batchIds)
                /\ inflight' = LaunchCalls(inflight, processingRef, batchIds,
                                           hasApiKey)
                /\ processingRef' = LaunchRef(processingRef, batchIds)
                /\ UNCHANGED isProcessing
        ELSE UNCHANGED <<photos, inflight, isProcessing, processingRef>>
  /\ UNCHANGED <<groupReport, reportVars, csv, variant, hasApiKey, settling,
                 nextId, revoked, confirmClear, removes>>

\* A rating call settles: the client has run against one backend behaviour.
ClientSettle(id, script) ==
  /\ ~Busy
  /\ Len(inflight[id]) > 0
  /\ settling' = [id |-> id, imageOk |-> script.imageOk,
                  responses |-> script.responses,
                  result |-> RateClient(variant, Head(inflight[id]),
                                        script.imageOk, script.responses)]
  /\ UNCHANGED <<groupReport, reportVars, csv, variant, hasApiKey, photos,
                 isProcessing, processingRef, inflight, nextId, revoked,
                 confirmClear, removes>>

\* the error branch of the then-callback stores the rating as well
SettledStoresRating(v, p, result) ==
  IF result.kind = "resolve"
  THEN IF v = "login" /\ result.error
       THEN [p EXCEPT !.status = ProcessStatus.Error,
                      !.rating = result.rating, !.reason = result.reason]
       ELSE [p EXCEPT !.rating = result.rating, !.reason = result.reason,
                      !.status = ProcessStatus.Completed]
  ELSE [p EXCEPT !.status = ProcessStatus.Error,
                 !.reason = IF v = "env" THEN "Network error"
                            ELSE IF v = "login" THEN "System error"
                            ELSE "Failed"]

\* the .then / .catch callbacks of processQueue applied to one photo
Settled(v, p, result) ==
  IF result.kind = "resolve"
  THEN IF v = "login" /\ result.error
       THEN [p EXCEPT !.status = ProcessStatus.Error,
                      !.reason = result.reason]
       ELSE [p EXCEPT !.rating = result.rating, !.reason = result.reason,
                      !.status = ProcessStatus.Completed]
  ELSE [p EXCEPT !.status = ProcessStatus.Error,
                 !.reason = IF v = "env" THEN "Network error"
                            ELSE IF v = "login" THEN "System error"
                            ELSE "Failed"]

\* the .finally callback
FinallyRef(ref, id) == ref \ {id}

\* the result is written to every photo that is being rated
CallbacksEveryPhoto ==
  /\ settling # None
  /\ photos' = MapSeq(photos,
                      LAMBDA p : IF p.status # ProcessStatus.Processing THEN p
                                 ELSE Settled(variant, p, settling.result))
  /\ processingRef' = EffectRef(isProcessing,
                                FinallyRef(processingRef, settling.id))
  /\ inflight' = [inflight EXCEPT ![settling.id] = Tail(@)]
  /\ settling' = None
  /\ UNCHANGED <<groupReport, reportVars, csv, variant, hasApiKey,
                 isProcessing, nextId, revoked, confirmClear, removes>>

\* a failed photo stops the batch
CallbacksHalting ==
  /\ settling # None
  /\ photos' = MapSeq(photos, LAMBDA p : IF p.id # settling.id THEN p
                                ELSE Settled(variant, p, settling.result))
  /\ isProcessing' = (isProcessing
                      /\ ~(settling.result.kind = "reject"
                           \/ (variant = "login" /\ settling.result.error)))
  /\ processingRef' = EffectRef(isProcessing',
                                FinallyRef(processingRef, settling.id))
  /\ inflight' = [inflight EXCEPT ![settling.id] = Tail(@)]
  /\ settling' = None
  /\ UNCHANGED <<groupReport, reportVars, csv, variant, hasApiKey, nextId,
                 revoked, confirmClear, removes>>

\* results that arrive while stopped are dropped
CallbacksWhileRunning ==
  /\ settling # None
  /\ photos' = IF ~isProcessing THEN photos
               ELSE MapSeq(photos, LAMBDA p : IF p.id # settling.id THEN p
                                ELSE Settled(variant, p, settling.result))
  /\ processingRef' = EffectRef(isProcessing,
                                FinallyRef(processingRef, settling.id))
  /\ inflight' = [inflight EXCEPT ![settling.id] = Tail(@)]
  /\ settling' = None
  /\ UNCHANGED <<groupReport, reportVars, csv, variant, hasApiKey,
                 isProcessing, nextId, revoked, confirmClear, removes>>

\* The callbacks of the settled call run: then or catch, then finally.
Callbacks ==
  /\ settling # None
  /\ photos' = MapSeq(photos, LAMBDA p : IF p.id # settling.id THEN p
                                ELSE Settled(variant, p, settling.result))
  /\ processingRef' = EffectRef(isProcessing,
                                FinallyRef(processingRef, settling.id))
  /\ inflight' = [inflight EXCEPT ![settling.id] = Tail(@)]
  /\ settling' = None
  /\ UNCHANGED <<groupReport, reportVars, csv, variant, hasApiKey,
                 isProcessing, nextId, revoked, confirmClear, removes>>

\* ------------------------------------------------------- the group report
\* StatsPanel: isFinished
isFinished ==
  /\ Len(photos) > 0
  /\ Len(SelectSeq(photos, LAMBDA p : p.status = ProcessStatus.Completed
                                      \/ p.status = ProcessStatus.Error))
     = Len(photos)

\* handleGenerateReport up to its await; the report button is rendered while
\* isFinished && !groupReport && !generatingReport
handleGenerateReport ==
  /\ ~Busy /\ MainScreen
  /\ isFinished /\ groupReport = Null /\ ~generatingReport
  /\ reports < MaxReports
  /\ generatingReport' = TRUE
  /\ reporting' = [id |-> 1, apiKey |-> hasApiKey, settled |-> FALSE]
  /\ reports' = reports + 1
  /\ UNCHANGED <<groupReport, reportAlerts, csv, variant, hasApiKey, photos,
                 isProcessing, processingRef, inflight, settling, nextId,
                 revoked, confirmClear, removes>>

\* The report call settles: the client has run against one backend
\* behaviour.
ReportSettle(responses) ==
  /\ ~Busy
  /\ reporting # None
  /\ reporting' = [id |-> 1, apiKey |-> reporting.apiKey, settled |-> TRUE,
                   responses |-> responses,
                   result |-> generateGroupReport(variant, reporting.apiKey,
                                                  responses)]
  /\ UNCHANGED <<groupReport, generatingReport, reportAlerts, reports, csv,
                 variant, hasApiKey, photos, isProcessing, processingRef,
                 inflight, settling, nextId, revoked, confirmClear, removes>>

\* the flag is lowered only when the report arrived
ReportCallbacksStuck ==
  /\ ReportDue
  /\ IF reporting.result.kind = "resolve"
     THEN /\ groupReport' = reporting.result.report
          /\ generatingReport' = FALSE
          /\ UNCHANGED reportAlerts
     ELSE /\ reportAlerts' = reportAlerts + 1
          /\ UNCHANGED <<groupReport, generatingReport>>
  /\ reporting' = None
  /\ UNCHANGED <<reports, csv, variant, hasApiKey, photos, isProcessing,
                 processingRef, inflight, settling, nextId, revoked,
                 confirmClear, removes>>

\* handleGenerateReport after its await: setGroupReport, or the catch block
\* with its alert, then the finally block
ReportCallbacks ==
  /\ ReportDue
  /\ IF reporting.result.kind = "resolve"
     THEN /\ groupReport' = reporting.result.report
          /\ UNCHANGED reportAlerts
     ELSE /\ reportAlerts' = reportAlerts + 1
          /\ UNCHANGED groupReport
  /\ generatingReport' = FALSE
  /\ reporting' = None
  /\ UNCHANGED <<reports, csv, variant, hasApiKey, photos, isProcessing,
                 processingRef, inflight, settling, nextId, revoked,
                 confirmClear, removes>>

\* ------------------------------------------------------------- the export
\* p.file.name: the file picked for the photo with this id
FileName(id) == "IMG_" \o ToString(id) \o ".jpg"

\* `"${s}"`, the quote characters of s doubled (no text here holds one)
Quoted(t) == "\"" \o t \o "\""

\* array.join(sep)
RECURSIVE Join(_, _)
Join(fields, sep) ==
  IF Len(fields) = 0 THEN ""
  ELSE IF Len(fields) = 1 THEN fields[1]
  ELSE fields[1] \o sep \o Join(Tail(fields), sep)

\* every item shown as not yet rated
ExportRowPending(p) == <<Quoted(FileName(p.id)), "Pending", Quoted(p.reason)>>

\* handleExport: the row of one photo
ExportRow(p) ==
  <<Quoted(FileName(p.id)),
    IF p.rating = Rating.Unrated THEN "Pending" ELSE p.rating,
    Quoted(p.reason)>>

\* handleExport: headers and rows, and the text written to the file
handleExport ==
  /\ ~Busy /\ MainScreen
  /\ CountStatus(ProcessStatus.Completed) + CountStatus(ProcessStatus.Error)
     # 0
  /\ LET headers == <<"FileName", "Rating", "Critique">>
         rows == MapSeq(photos, ExportRow)
         lines == <<Join(headers, ",")>>
                  \o [i \in 1..Len(rows) |-> Join(rows[i], ",")]
     IN csv' = [rows |-> rows, csvContent |-> Join(lines, "\n")]
  /\ UNCHANGED <<groupReport, reportVars, variant, hasApiKey, photos,
                 isProcessing, processingRef, inflight, settling, nextId,
                 revoked, confirmClear, removes>>

Next ==
  \/ \E k \in 1..MaxUpload : nextId + k <= MaxPhotos /\ handleFileUpload(k)
  \/ \E id \in Ids : handleRemovePhoto(id)
  \/ onStart
  \/ onStop
  \/ EffectNoKey
  \/ ArmClear
  \/ DisarmClear
  \/ ConfirmClear
  \/ handleLogin
  \/ handleLogout
  \/ processQueue
  \/ \E id \in Ids, script \in QueueScripts : ClientSettle(id, script)
  \/ Callbacks

Spec == Init /\ [][Next]_vars

\* ------------------------------------ small batches, every backend script
\* The queue on batches of at most MaxRated photos, each rating call run
\* against any backend behaviour.
NextRate ==
  \/ \E k \in 1..MaxUpload : nextId + k <= MaxRated /\ handleFileUpload(k)
  \/ onStart
  \/ onStop
  \/ EffectNoKey
  \/ handleLogin
  \/ processQueue
  \/ \E id \in Ids, script \in AllScripts : ClientSettle(id, script)
  \/ Callbacks

SpecRate == Init /\ [][NextRate]_vars

\* ------------------------------------------------ an undisturbed batch run
\* No stop, remove, clear or logout; the interval keeps firing while
\* running, every rating call settles and its callbacks run.
NextRun ==
  \/ \E k \in 1..MaxUpload : nextId + k <= MaxPhotos /\ handleFileUpload(k)
  \/ onStart
  \/ EffectNoKey
  \/ handleLogin
  \/ processQueue
  \/ \E id \in Ids, script \in QueueScripts : ClientSettle(id, script)
  \/ Callbacks

Settles == \E id \in Ids, script \in QueueScripts : ClientSettle(id, script)

Fairness ==
  /\ WF_vars(processQueue)
  /\ WF_vars(Settles)
  /\ WF_vars(Callbacks)
  /\ WF_vars(EffectNoKey)

SpecRun == Init /\ [][NextRun]_vars /\ Fairness

\* ------------------------------------------- a batch run that may be stopped
NextStop ==
  \/ \E k \in 1..MaxUpload : nextId + k <= MaxPhotos /\ handleFileUpload(k)
  \/ onStart
  \/ onStop
  \/ EffectNoKey
  \/ handleLogin
  \/ processQueue
  \/ \E id \in Ids, script \in QueueScripts : ClientSettle(id, script)
  \/ Callbacks

SpecStop == Init /\ [][NextStop]_vars /\ Fairness

\* ------------------------------------------------------- a large batch
\* Up to MaxBatch photos, every rating request answered at once with a good
\* rating; photos are added and removed while the batch runs.
BatchScripts ==
  { [imageOk |-> TRUE, responses |-> <<Json("A", "crit")>>] }

NextBatch ==
  \/ \E k \in 1..MaxUpload : nextId + k <= MaxBatch /\ handleFileUpload(k)
  \/ \E id \in Ids : handleRemovePhoto(id)
  \/ onStart
  \/ EffectNoKey
  \/ handleLogin
  \/ processQueue
  \/ \E id \in Ids, script \in BatchScripts : ClientSettle(id, script)
  \/ Callbacks

SpecBatch == Init /\ [][NextBatch]_vars

\* ------------------------------------------------- the rating client alone
\* One rating call made outside a batch (id 0), with or without a key,
\* against any backend behaviour.
RateCall(apiKey, script) ==
  /\ settling = None
  /\ settling' = [id |-> 0, imageOk |-> script.imageOk,
                  responses |-> script.responses,
                  result |-> RateClient(variant, apiKey, script.imageOk,
                                        script.responses),
                  apiKey |-> apiKey]
  /\ UNCHANGED <<groupReport, reportVars, csv, variant, hasApiKey, photos,
                 isProcessing, processingRef, inflight, nextId, revoked,
                 confirmClear, removes>>

\* the caller takes the result
RateReturn ==
  /\ settling # None
  /\ settling' = None
  /\ UNCHANGED <<groupReport, reportVars, csv, variant, hasApiKey, photos,
                 isProcessing, processingRef, inflight, nextId, revoked,
                 confirmClear, removes>>

NextClient ==
  \/ \E apiKey \in BOOLEAN, script \in AllScripts : RateCall(apiKey, script)
  \/ RateReturn

SpecClient == Init /\ [][NextClient]_vars

\* --------------------------------------------------------- the export
\* Small batches that are rated and exported; the batch is stopped and
\* started, photos are added and removed and the list is emptied at any
\* time.
NextExport ==
  \/ \E k \in 1..MaxUpload : nextId + k <= MaxRated /\ handleFileUpload(k)
  \/ \E id \in Ids : handleRemovePhoto(id)
  \/ onStart
  \/ onStop
  \/ EffectNoKey
  \/ ArmClear
  \/ DisarmClear
  \/ ConfirmClear
  \/ handleLogin
  \/ handleLogout
  \/ processQueue
  \/ \E id \in Ids, script \in SchemaScripts : ClientSettle(id, script)
  \/ Callbacks
  \/ handleExport

SpecExport == Init /\ [][NextExport]_vars

\* ----------------------------------------------------- the group report
\* Small batches that are rated, reported on, added to and cleared.
NextReport ==
  \/ \E k \in 1..MaxUpload : nextId + k <= MaxRated /\ handleFileUpload(k)
  \/ onStart
  \/ EffectNoKey
  \/ handleLogin
  \/ ArmClear
  \/ DisarmClear
  \/ ConfirmClear
  \/ processQueue
  \/ \E id \in Ids, script \in SchemaScripts : ClientSettle(id, script)
  \/ Callbacks
  \/ handleGenerateReport
  \/ \E responses \in ReportScripts : ReportSettle(responses)
  \/ ReportCallbacks

SpecReport == Init /\ [][NextReport]_vars

\* ------------------------------------------------------- the three builds
\* The backend behaviours on which the builds differ: good answers, a rating
\* outside the enum, answers without a result, a network error, rate-limit
\* errors without end, and an image that cannot be read.
BuildScripts ==
  { [imageOk |-> TRUE, responses |-> <<f>>] :
      f \in {Json("S", "crit"), Json("Rejected", "crit"), Empty, Malformed,
             Fails(NetworkErr), Fails(QuotaErr)} }
  \cup { [imageOk |-> FALSE, responses |-> <<Json("S", "crit")>>] }

\* the state after construction of any of the three builds
InitBuilds ==
  /\ variant \in {"env"} \cup LoginBuilds
  /\ hasApiKey \in BOOLEAN
  /\ photos = <<>>
  /\ isProcessing = FALSE
  /\ processingRef = {}
  /\ inflight = [i \in Ids |-> <<>>]
  /\ settling = None
  /\ nextId = 0
  /\ revoked = [i \in Ids |-> 0]
  /\ confirmClear = FALSE
  /\ removes = 0
  /\ groupReport = Null
  /\ generatingReport = FALSE
  /\ reporting = None
  /\ reportAlerts = 0
  /\ reports = 0
  /\ csv = [rows |-> <<>>, csvContent |-> ""]

\* Small batches in any build; the batch is stopped and started, photos are
\* added and removed and the list is emptied at any time.
NextBuilds ==
  \/ \E k \in 1..MaxUpload : nextId + k <= MaxRated /\ handleFileUpload(k)
  \/ \E id \in Ids : handleRemovePhoto(id)
  \/ onStart
  \/ onStop
  \/ EffectNoKey
  \/ ArmClear
  \/ DisarmClear
  \/ ConfirmClear
  \/ handleLogin
  \/ handleLogout
  \/ processQueue
  \/ \E id \in Ids, script \in BuildScripts : ClientSettle(id, script)
  \/ Callbacks

SpecBuilds == InitBuilds /\ [][NextBuilds]_vars

TypeOK ==
  /\ variant \in {"env", "login", "direct"}
  /\ hasApiKey \in BOOLEAN
  /\ isProcessing \in BOOLEAN
  /\ processingRef \subseteq Ids
  /\ nextId \in 0..MaxIds
  /\ settling = None \/ settling.id \in Ids \cup {0}
  /\ confirmClear \in BOOLEAN

\* ================================================================ claims
Terminal == {ProcessStatus.Completed, ProcessStatus.Error}

\* the status of the photo with this id, "none" when it is not in the list
StatusOf(ps, id) ==
  IF \E i \in 1..Len(ps) : ps[i].id = id
  THEN LET i == CHOOSE j \in 1..Len(ps) : ps[j].id = id IN ps[i].status
  ELSE "none"

PhotoOf(ps, id) == LET i == CHOOSE j \in 1..Len(ps) : ps[j].id = id IN ps[i]

AllDone == \A i \in 1..Len(photos) : photos[i].status \in Terminal

\* the ids handed out where a batch holds at most MaxPhotos photos
QueueIds == 1..(MAX_CONCURRENCY_ENV + MaxExtra)

\* C1 as stated: once the controller is started on a batch and is left
\* alone, it eventually is not running and every photo is Completed or
\* Error.
C1_Claim == isProcessing ~> (~isProcessing /\ AllDone)

\* C1, amended: the same, for a start made with an API key configured.
C1_Amended == (isProcessing /\ hasApiKey) ~> (~isProcessing /\ AllDone)

\* C1: a batch larger than the concurrency limit has run to quiescence
C1_Witness ==
  /\ ~isProcessing /\ AllDone
  /\ Len(photos) > MAX_CONCURRENCY

\* C2: in every reachable state at most MAX_CONCURRENCY photos have status
\* Processing.
C2_ProcessingBounded ==
  CountStatus(ProcessStatus.Processing) <= MAX_CONCURRENCY

\* C2: the limit binds: all slots taken and a photo still waits
C2_Witness ==
  /\ CountStatus(ProcessStatus.Processing) = MAX_CONCURRENCY
  /\ pendingCount > 0

\* C3 as stated: at every moment at most MAX_CONCURRENCY rating requests
\* are issued and not yet settled.
C3_Claim == Outstanding <= MAX_CONCURRENCY

\* C4: no photo id ever has two rating requests outstanding at once.
C4_OneRequestPerId == \A id \in Ids : Len(inflight[id]) <= 1

\* C4: running again after a stop that emptied the guard set, with a
\* request of the earlier run still outstanding
C4_Witness ==
  /\ isProcessing
  /\ \E id \in Ids : Len(inflight[id]) = 1 /\ id \notin processingRef

\* C5: (1) a step taken while not running turns no Pending photo into a
\* Processing one; (2) a step that turns running off leaves every issued
\* request outstanding; (3) a photo that is Processing while the batch is
\* stopped is eventually Completed or Error.
C5_StopKeepsWork ==
  /\ [][~isProcessing =>
          \A id \in Ids :
             StatusOf(photos, id) = ProcessStatus.Pending
             => StatusOf(photos', id) # ProcessStatus.Processing]_vars
  /\ [][isProcessing /\ ~isProcessing' => inflight' = inflight]_vars
  /\ \A id \in QueueIds :
       (~isProcessing /\ StatusOf(photos, id) = ProcessStatus.Processing)
       ~> (StatusOf(photos, id) \in Terminal)

\* C5: stopped in mid-run, photos still Processing and others still Pending
C5_Witness ==
  /\ ~isProcessing
  /\ CountStatus(ProcessStatus.Processing) > 0
  /\ pendingCount > 0
  /\ Outstanding = CountStatus(ProcessStatus.Processing)

\* C6 as stated: a clear leaves no photo in the list and, once it is done,
\* the preview handle of every photo ever added has been released exactly
\* once (by the clear or by an earlier remove).
C6_Claim ==
  [][ConfirmClear =>
       /\ photos' = <<>>
       /\ \A id \in 1..nextId : revoked'[id] = 1]_vars

\* a rating call ran against this script: k rate-limit errors, then a good
\* answer with rating r and critique c
GoodAfter(c, k) ==
  /\ c.imageOk
  /\ Len(c.responses) = k + 1
  /\ \A i \in 1..k : c.responses[i] = Fails(QuotaErr)
  /\ c.responses[k + 1].kind = "json"
  /\ c.responses[k + 1].rating \in {"S", "A", "B"}
  /\ c.responses[k + 1].reason # ""

\* C7 as stated: every rating call resolves with a rating and a critique,
\* none rejects.
Structured(result) ==
  /\ result.kind = "resolve"
  /\ result.rating \in {Rating.S, Rating.A, Rating.B, Rating.Unrated,
                        Rating.Rejected}
  /\ result.reason # ""
C7_Claim == settling # None => Structured(settling.result)

\* C7, amended: every rating call made with a credential resolves with a
\* rating and a critique; without a credential ratePhoto still resolves
\* (flagged as an error) while ratePhotoWithGemini rejects.
C7_Amended ==
  settling # None =>
    IF settling.apiKey \/ variant = "login"
    THEN /\ Structured(settling.result)
         /\ ~settling.apiKey => settling.result.error
    ELSE settling.result.kind = "reject"

\* C7: a call with a credential whose image could not be prepared
C7_Witness ==
  /\ settling # None /\ settling.apiKey /\ ~settling.imageOk
  /\ settling.result.kind = "resolve"

\* C8: a rating call that meets k rate-limit errors, k below the client's
\* attempt ceiling, and then a good answer resolves with that answer's
\* rating and critique, and its callbacks leave the photo Completed with
\* that rating and critique.
C8_RetryThenSuccess ==
  /\ [](settling # None =>
          \A k \in 0..(Ceiling(variant) - 1) :
             GoodAfter(settling, k) =>
               /\ settling.result.kind = "resolve"
               /\ ~settling.result.error
               /\ settling.result.rating = settling.responses[k + 1].rating
               /\ settling.result.reason = settling.responses[k + 1].reason)
  /\ [][(settling # None /\ settling' = None) =>
          \A k \in 0..(Ceiling(variant) - 1) :
             (GoodAfter(settling, k) /\ settling.id \in PhotoIds) =>
               PhotoOf(photos', settling.id) =
                 [id |-> settling.id,
                  rating |-> settling.responses[k + 1].rating,
                  reason |-> settling.responses[k + 1].reason,
                  status |-> ProcessStatus.Completed]]_vars

\* C8: the photo of a call that failed twice and then succeeded is Completed
\* with the answer's rating
C8_Witness ==
  /\ settling # None /\ GoodAfter(settling, 2)
  /\ settling.responses[3].rating = "A"
  /\ settling.id \in PhotoIds

\* the first n answers of the script are rate-limit errors
QuotaFirst(c, n) == \A i \in 1..n : Resp(c.responses, i) = Fails(QuotaErr)

\* C9: a rating call (credential present, image prepared) whose every
\* attempt up to the ceiling meets a rate-limit error resolves, does not
\* reject, with rating B and a non-empty critique.
C9_FallbackOnExhaustion ==
  (settling # None /\ settling.apiKey /\ settling.imageOk
   /\ QuotaFirst(settling, Ceiling(variant)))
  => /\ settling.result.kind = "resolve"
     /\ settling.result.rating = Rating.B
     /\ settling.result.reason # ""

\* C9: the attempts ran out although the backend would have answered next
C9_Witness ==
  /\ settling # None /\ settling.apiKey /\ settling.imageOk
  /\ QuotaFirst(settling, Ceiling(variant))
  /\ Resp(settling.responses, Ceiling(variant) + 1).kind = "json"
  /\ settling.result.calls = Ceiling(variant)

\* C10: (1) the callbacks of a rating call never change running mode;
\* (2) they change no photo but the one the call was for; (3) while
\* running with a key, a Pending photo is eventually Completed or Error,
\* whatever happened to the others.
C10_FailureDoesNotHalt ==
  /\ [][settling # None => isProcessing' = isProcessing]_vars
  /\ [][settling # None =>
          \A i \in 1..Len(photos) :
             photos[i].id # settling.id => photos'[i] = photos[i]]_vars
  /\ \A id \in QueueIds :
       (isProcessing /\ hasApiKey
        /\ StatusOf(photos, id) = ProcessStatus.Pending)
       ~> (StatusOf(photos, id) \in Terminal)

\* C10: a photo has failed while the batch runs and another still waits
C10_Witness ==
  /\ isProcessing
  /\ CountStatus(ProcessStatus.Error) > 0
  /\ pendingCount > 0

\* a rating call ran against this script: image prepared, k rate-limit
\* errors, then the answer f
EndsWith(c, k, f) ==
  /\ c.imageOk
  /\ c.responses = Repeat(Fails(QuotaErr), k) \o <<f>>

\* the callbacks of the settled rating call run in this step, for a photo
\* that is still in the list
CallbacksRun == settling # None /\ settling' = None /\ settling.id \in PhotoIds

\* C11 as stated: when the backend's answer to a photo's rating request is
\* absent or does not parse, the callbacks of the request leave the photo
\* in status Error.
C11_Claim ==
  [][CallbacksRun =>
       \A k \in 0..(Ceiling(variant) - 1) :
          (EndsWith(settling, k, Empty) \/ EndsWith(settling, k, Malformed))
          => StatusOf(photos', settling.id) = ProcessStatus.Error]_vars

\* C12 as stated: a rating call that meets a network error makes no request
\* and sleeps no back-off delay after it, and the callbacks of the call
\* leave the photo in status Error with a reason.
C12_Claim ==
  /\ [](settling # None =>
          \A k \in 0..(Ceiling(variant) - 1) :
             EndsWith(settling, k, Fails(NetworkErr))
             => /\ settling.result.calls = k + 1
                /\ Len(settling.result.waits) = k)
  /\ [][CallbacksRun =>
          \A k \in 0..(Ceiling(variant) - 1) :
             EndsWith(settling, k, Fails(NetworkErr))
             => /\ StatusOf(photos', settling.id) = ProcessStatus.Error
                /\ PhotoOf(photos', settling.id).reason # ""]_vars

\* C13: (1) a start changes no photo and issues no request; (2) a rating
\* request is issued only for a photo that is Pending and has no request
\* outstanding, so nothing that is Processing, Completed or Error at a
\* restart is submitted again; (3) a photo that is Pending while the batch
\* runs is eventually Completed or Error, unless the user stops the batch
\* again while it still waits.
C13_RestartResumes ==
  /\ [][(~isProcessing /\ isProcessing')
          => (photos' = photos /\ inflight' = inflight)]_vars
  /\ [][\A id \in Ids :
          Len(inflight'[id]) > Len(inflight[id])
          => /\ StatusOf(photos, id) = ProcessStatus.Pending
             /\ Len(inflight[id]) = 0]_vars
  /\ \A id \in QueueIds :
       (isProcessing /\ StatusOf(photos, id) = ProcessStatus.Pending)
       ~> \/ StatusOf(photos, id) \in Terminal
          \/ (~isProcessing /\ StatusOf(photos, id) = ProcessStatus.Pending)

\* C13: running again after a stop: a request of the run before the stop is
\* still outstanding (its id is no longer in the guard set) and a photo that
\* waited at the restart has been promoted
C13_Witness ==
  /\ isProcessing
  /\ \E a \in Ids : /\ Len(inflight[a]) = 1 /\ a \notin processingRef
                     /\ StatusOf(photos, a) = ProcessStatus.Processing
  /\ \E b \in processingRef : StatusOf(photos, b) = ProcessStatus.Processing

\* C14: when the awaited report call has rejected, the rest of
\* handleGenerateReport shows exactly one alert, leaves the stored report as
\* it was and lowers the generating flag; the flag is up only while a report
\* call is awaited.
C14_ReportFailure ==
  /\ [][(ReportDue /\ reporting.result.kind = "reject")
          => /\ reportAlerts' = reportAlerts + 1
             /\ groupReport' = groupReport
             /\ generatingReport /\ ~generatingReport'
             /\ reporting' = None]_vars
  /\ [](generatingReport <=> reporting # None)

\* C14: every photo is rated, the one report call of the env build has
\* failed, its alert has been shown and no report is stored
C14_Witness ==
  /\ variant = "env"
  /\ reportAlerts = 1 /\ reports = 1
  /\ reporting = None /\ ~generatingReport /\ groupReport = Null
  /\ isFinished

\* C15: an export writes one row per photo of the list, in list order (the
\* first column names the photo's file); the rating column of a row is
\* "Pending" when the photo's rating is Unrated and otherwise the photo's
\* rating, one of S, A, B.
C15_ExportRows ==
  [][csv' # csv =>
       /\ Len(csv'.rows) = Len(photos)
       /\ \A i \in 1..Len(photos) :
            /\ csv'.rows[i][1] = Quoted(FileName(photos[i].id))
            /\ IF photos[i].rating = Rating.Unrated
               THEN csv'.rows[i][2] = "Pending"
               ELSE /\ csv'.rows[i][2] = photos[i].rating
                    /\ csv'.rows[i][2] \in {"S", "A", "B"}]_vars

\* C15: the spec's example: an export with two rows, one of an Unrated photo
\* and one of a photo Completed with rating S
C15_Witness ==
  /\ Len(csv.rows) = 2
  /\ \E i, j \in 1..2 : csv.rows[i][2] = "Pending" /\ csv.rows[j][2] = "S"
  /\ csv.csvContent # ""

Min(a, b) == IF a < b THEN a ELSE b

\* the photos this step turns from Pending to Processing
Promoted ==
  {id \in PhotoIds : /\ StatusOf(photos, id) = ProcessStatus.Pending
                     /\ StatusOf(photos', id) = ProcessStatus.Processing}

\* C16: a run of processQueue that finds p photos Processing and q Pending
\* promotes exactly min(MAX_CONCURRENCY - p, q) photos when
\* p < MAX_CONCURRENCY and none otherwise, and changes no other status.
C16_TickPromotes ==
  [][processQueue =>
       LET p == CountStatus(ProcessStatus.Processing)
           q == pendingCount
           n == IF p < MAX_CONCURRENCY THEN Min(MAX_CONCURRENCY - p, q)
                                       ELSE 0
       IN /\ Cardinality(Promoted) = n
          /\ Len(WithStatus(photos', ProcessStatus.Processing)) = p + n
          /\ Len(WithStatus(photos', ProcessStatus.Pending)) = q - n
          /\ Len(photos') = Len(photos)]_vars

\* C16: the spec's example: limit 4, ten photos, the first tick has left
\* exactly 4 Processing and 6 Pending
C16_Witness ==
  /\ MAX_CONCURRENCY = 4
  /\ Len(photos) = 10
  /\ CountStatus(ProcessStatus.Processing) = 4
  /\ pendingCount = 6

\* C17: the list is in insertion order (ids are handed out in increasing
\* order), and no step promotes a photo while a photo before it in the list
\* stays Pending.
C17_Fifo ==
  /\ [](\A i, j \in 1..Len(photos) : i < j => photos[i].id < photos[j].id)
  /\ [][Len(photos') = Len(photos) =>
          \A j \in 1..Len(photos) :
             (/\ photos'[j].id = photos[j].id
              /\ photos[j].status = ProcessStatus.Pending
              /\ photos'[j].status = ProcessStatus.Processing)
             => \A i \in 1..(j - 1) :
                   photos'[i].status # ProcessStatus.Pending]_vars

\* C17: after a photo was removed and others were rated, the freed slots
\* went to the photos at the front of the queue and later ones still wait
C17_Witness ==
  /\ removes = 1
  /\ CountStatus(ProcessStatus.Completed) >= 1
  /\ CountStatus(ProcessStatus.Processing) = MAX_CONCURRENCY
  /\ pendingCount >= 2
  /\ \E i \in 1..Len(photos) :
       /\ photos[i].status = ProcessStatus.Processing
       /\ \E j \in 1..i : photos[j].status = ProcessStatus.Completed
       /\ \A j \in (i + 1)..Len(photos) :
            photos[j].status = ProcessStatus.Pending

\* the status changes an item may make
Allowed ==
  { <<ProcessStatus.Pending, ProcessStatus.Processing>>,
    <<ProcessStatus.Processing, ProcessStatus.Completed>>,
    <<ProcessStatus.Processing, ProcessStatus.Error>> }

\* C18: in every step, a photo that stays in the list keeps its status or
\* goes Pending -> Processing, Processing -> Completed or Processing ->
\* Error; a photo that is Completed or Error and stays in the list keeps
\* its status, rating and critique.
C18_Transitions ==
  [][\A i \in 1..Len(photos), j \in 1..Len(photos') :
       photos'[j].id = photos[i].id =>
         LET p == photos[i]
             q == photos'[j]
         IN /\ p.status = q.status \/ <<p.status, q.status>> \in Allowed
            /\ p.status \in Terminal => q = p]_vars

\* C18: a batch restarted after a stop, with a Completed or failed photo in
\* the list and a request of the earlier run outstanding
C18_Witness ==
  /\ isProcessing
  /\ \E i \in 1..Len(photos) : photos[i].status \in Terminal
  /\ \E a \in Ids : Len(inflight[a]) = 1 /\ a \notin processingRef

\* a photo that is Completed or Error leaves the list in this step
Leaves(id) ==
  /\ StatusOf(photos, id) \in Terminal
  /\ StatusOf(photos', id) = "none"

\* C19 as stated: a Completed or Error photo leaves the list only in a step
\* of the full clear.
C19_Claim == [][\A id \in Ids : Leaves(id) => ConfirmClear]_vars

\* C19, amended: a Completed or Error photo leaves the list only through a
\* full clear, through the remove button of its own card, or (login build)
\* through logout, which empties the list.
C19_Amended ==
  [][\A id \in Ids :
       Leaves(id) => ConfirmClear \/ handleRemovePhoto(id) \/ handleLogout]_vars

\* C19: the only photo ever added was exported as rated S and is gone after
\* one click on its remove button
C19_Witness ==
  /\ nextId = 1 /\ removes = 1 /\ photos = <<>>
  /\ Len(csv.rows) = 1 /\ csv.rows[1][2] = "S"

\* C20: a run of processQueue that finds no photo Processing and none
\* Pending turns running off and changes no photo; a run that finds one
\* leaves running on.
C20_TickStopsWhenDone ==
  [][processQueue =>
       IF CountStatus(ProcessStatus.Processing) = 0 /\ pendingCount = 0
       THEN ~isProcessing' /\ photos' = photos
       ELSE isProcessing']_vars

\* C20: running, a batch larger than the limit all rated and every callback
\* done: the tick that is due finds nothing left
C20_Witness ==
  /\ isProcessing /\ ~Busy
  /\ Len(photos) > MAX_CONCURRENCY /\ AllDone

\* the build takes the settled call for failed: it rejected, or (in the build
\* that looks at the flag) it resolved with the error flag
Failed(v, result) ==
  result.kind = "reject" \/ (v = "login" /\ result.error)

\* C21: when the callbacks of a failed rating call run, the photo of the
\* call goes from Processing to Error with a non-empty reason and keeps its
\* rating, Unrated; and the catch callback of every build does this to any
\* Processing photo of the list.
C21_FailureToError ==
  /\ [](\A i \in 1..Len(photos), v \in {"env"} \cup LoginBuilds :
          photos[i].status = ProcessStatus.Processing =>
            LET q == Settled(v, photos[i], Reject("API Key not found"))
            IN /\ q.status = ProcessStatus.Error
               /\ q.reason # ""
               /\ q.rating = photos[i].rating)
  /\ [][CallbacksRun /\ Failed(variant, settling.result) =>
          LET p == PhotoOf(photos, settling.id)
              q == PhotoOf(photos', settling.id)
          IN /\ p.status = ProcessStatus.Processing
             /\ q.status = ProcessStatus.Error
             /\ q.reason # ""
             /\ q.rating = Rating.Unrated
             /\ p.rating = Rating.Unrated]_vars

\* C21: in the build that looks at the flag, a photo whose call ran out of
\* attempts (the client resolved with rating B and the error flag) is in
\* status Error, Unrated, with the client's reason
C21_Witness ==
  /\ variant = "login"
  /\ \E i \in 1..Len(photos) :
        /\ photos[i].status = ProcessStatus.Error
        /\ photos[i].reason = "Request timed out"
        /\ photos[i].rating = Rating.Unrated

\* C22: every photo of the list that carries a rating other than Unrated is
\* Completed; a Pending, Processing or Error photo is Unrated.
C22_RatedOnlyIfCompleted ==
  \A i \in 1..Len(photos) :
     photos[i].rating # Rating.Unrated
     => photos[i].status = ProcessStatus.Completed

\* C22: a rated photo next to one whose call failed with a rating in its
\* result
C22_Witness ==
  \E i, j \in 1..Len(photos) :
     /\ photos[i].status = ProcessStatus.Completed
     /\ photos[i].rating = Rating.S
     /\ photos[j].status = ProcessStatus.Error
     /\ photos[j].reason = "Request timed out"

\* a rating request is issued for this id in this step
Issued(id) == Len(inflight'[id]) > Len(inflight[id])

\* C23: no Pending photo of the list has a rating request outstanding; and
\* a step that issues a request for an id issues one, for a photo that was
\* Pending with no request outstanding and not in the guard set, and
\* leaves that photo Processing.
C23_MarkedWhenLaunched ==
  /\ [](\A i \in 1..Len(photos) :
          photos[i].status = ProcessStatus.Pending
          => Len(inflight[photos[i].id]) = 0)
  /\ [][\A id \in QueueIds :
          Issued(id) =>
            /\ Len(inflight[id]) = 0
            /\ Len(inflight'[id]) = 1
            /\ id \notin processingRef
            /\ StatusOf(photos, id) = ProcessStatus.Pending
            /\ StatusOf(photos', id) = ProcessStatus.Processing]_vars

\* C23: after a stop and a restart a tick has launched a further photo: a
\* request of the first run is outstanding and no longer in the guard set,
\* one of the second run is, and a photo still waits
C23_Witness ==
  /\ isProcessing
  /\ \E a, b \in QueueIds :
        /\ Len(inflight[a]) = 1 /\ a \notin processingRef
        /\ Len(inflight[b]) = 1 /\ b \in processingRef
  /\ \E i \in 1..Len(photos) : photos[i].status = ProcessStatus.Pending

\* C24: the step that applies the completion of the request for an id
\* keeps the length and the order of the list and every photo with another
\* id; when no photo has that id the list is unchanged.
C24_CompletionFrame ==
  [][settling # None /\ settling' = None =>
       /\ Len(photos') = Len(photos)
       /\ \A i \in 1..Len(photos) :
             /\ photos'[i].id = photos[i].id
             /\ photos[i].id # settling.id => photos'[i] = photos[i]
       /\ settling.id \notin PhotoIds => photos' = photos]_vars

\* C24: the completion of a request is due whose photo has left the list,
\* while another photo is being rated
C24_Witness ==
  /\ settling # None
  /\ settling.id \notin PhotoIds
  /\ \E i \in 1..Len(photos) : photos[i].status = ProcessStatus.Processing

\* the delays C25 states, in ms
StatedDelays == <<2000, 4000, 8000, 16000, 32000>>

\* C25: a call of ratePhotoWithGemini (credential present, image prepared)
\* that meets n rate-limit errors in a row, followed by another answer or
\* by the sixth rate-limit error, has made min(n + 1, 6) requests and has
\* slept the first min(n, 5) of the delays 2000, 4000, 8000, 16000, 32000,
\* one after each of the first five failures.
C25_RetrySchedule ==
  (settling # None /\ variant = "env" /\ settling.apiKey /\ settling.imageOk)
  => /\ settling.result.calls <= 6
     /\ \A n \in 0..6 :
          (/\ QuotaFirst(settling, n)
           /\ n = 6 \/ Resp(settling.responses, n + 1) # Fails(QuotaErr))
          => /\ settling.result.calls = Min(n + 1, 6)
             /\ settling.result.waits = SubSeq(StatedDelays, 1, Min(n, 5))

\* C25: six rate-limit errors met, five delays slept, the fallback returned
C25_Witness ==
  /\ settling # None /\ variant = "env"
  /\ settling.apiKey /\ settling.imageOk
  /\ QuotaFirst(settling, 6)
  /\ settling.result.calls = 6
  /\ settling.result.waits = StatedDelays
  /\ settling.result.reason = "AI unavailable (Limit reached)."

\* C26: every Processing photo of the list has a rating request outstanding
\* (issued, its callbacks not yet run); so when no request is outstanding no
\* photo is Processing.
C26_ProcessingHasRequest ==
  /\ \A i \in 1..Len(photos) :
        photos[i].status = ProcessStatus.Processing
        => Len(inflight[photos[i].id]) >= 1
  /\ Outstanding = 0 => CountStatus(ProcessStatus.Processing) = 0

\* C26: running again after a stop, as many photos Processing as the limit
\* allows, one of them launched before the stop emptied the guard set and
\* one after, and a photo already rated
C26_Witness ==
  /\ isProcessing
  /\ CountStatus(ProcessStatus.Processing) = MAX_CONCURRENCY
  /\ \E i, j \in 1..Len(photos) :
        /\ photos[i].status = ProcessStatus.Processing
        /\ photos[i].id \notin processingRef
        /\ photos[j].status = ProcessStatus.Processing
        /\ photos[j].id \in processingRef
  /\ \E i \in 1..Len(photos) : photos[i].status \in Terminal

\* files are added or the batch is cleared in this step
AddOrClear ==
  \/ Len(photos') > Len(photos)
  \/ Len(photos) > 0 /\ photos' = <<>>

\* C27 as stated: a step that adds files or clears the batch leaves the
\* stored report null, and a report is installed only by a generation that
\* was started after the last such step.  A generation starts when every
\* photo of the list is Completed or Error, and only added files or a clear
\* change that; so a report is installed only while every photo of the
\* list is Completed or Error.
C27_Claim ==
  /\ [][AddOrClear => groupReport' = Null]_vars
  /\ [][groupReport' # groupReport /\ groupReport' # Null
        => isFinished]_vars

\* C28 as stated: the clear handler never runs while running mode is on.
C28_Claim == [][ConfirmClear => ~isProcessing]_vars

\* C29: (1) the step that turns running mode on without an API key changes
\* no photo and issues no request; (2) the step taken from a state that is
\* running without a key turns running mode off, changes no photo and
\* issues no request; (3) running without a key leads to not running.
C29_NoKeyNoRun ==
  /\ [][~isProcessing /\ isProcessing' /\ ~hasApiKey
        => photos' = photos /\ inflight' = inflight]_vars
  /\ [][isProcessing /\ ~hasApiKey
        => ~isProcessing' /\ photos' = photos /\ inflight' = inflight]_vars
  /\ (isProcessing /\ ~hasApiKey) ~> ~isProcessing

\* C29: running mode has been turned on for a batch although no key is
\* configured
C29_Witness ==
  /\ isProcessing /\ ~hasApiKey
  /\ Len(photos) > 1
  /\ pendingCount = Len(photos)

\* C30 as stated: every Completed photo has rating S, A or B; the three
\* rating counts of the statistics add up to the number of Completed
\* photos, which is at most the processed count, which is at most the
\* total.
C30_Claim ==
  /\ \A i \in 1..Len(photos) :
        photos[i].status = ProcessStatus.Completed
        => photos[i].rating \in {Rating.S, Rating.A, Rating.B}
  /\ stats.s_count + stats.a_count + stats.b_count
       = CountStatus(ProcessStatus.Completed)
  /\ CountStatus(ProcessStatus.Completed) <= stats.processed
  /\ stats.processed <= stats.total

====
